---- MODULE Spec2Model ----
(***************************************************************************)
(* Document upload / search pipeline of the repository's two applications: *)
(*   - the Gradio app   (src/AI_Scanner.app.py): process_upload,           *)
(*     search_docs, clear_docs over the module-level store DOCS;           *)
(*   - the Streamlit app (src/app.py): handle_file_upload,                 *)
(*     render_upload_section, render_search_section and                    *)
(*     SearchEngine.semantic_keyword_search over st.session_state.         *)
(* A text is a sequence of one-character strings, so that lower(),         *)
(* strip(), split(), find(), count() and the regular expressions are       *)
(* computed character by character, as the code computes them.             *)
(***************************************************************************)
EXTENDS Integers, Sequences, FiniteSets, TLC

-----------------------------------------------------------------------------
(* Bounds of the model.                                                    *)

\* longest upload batch handed to one process-uploads call
MaxBatch == 2

\* most whitespace-separated words in a generated query
MaxQueryTerms == 3

\* most temporary directories kept on disk before the model stops uploading
MaxTmpDirs == 2

\* largest top_k handed to a direct call of semantic_keyword_search
MaxTopK == 3

\* most documents in a corpus handed to a direct call of the search engine
MaxDocs == 2

-----------------------------------------------------------------------------
(* Python string primitives.                                               *)

MinOf(S) == CHOOSE x \in S : \A y \in S : x <= y

MaxOf(S) == CHOOSE x \in S : \A y \in S : x >= y

\* str.lower() on one character (the letters that occur in the model)
Lower(c) ==
  CASE c = "A" -> "a"
    [] c = "B" -> "b"
    [] c = "C" -> "c"
    [] c = "D" -> "d"
    [] c = "F" -> "f"
    [] c = "P" -> "p"
    [] OTHER -> c

\* str.lower()
LowerS(s) == [i \in 1..Len(s) |-> Lower(s[i])]

\* the characters str.strip() and str.split() treat as whitespace
IsSpace(c) == c \in {" ", "\n", "\t"}

\* mutant of Strip: only spaces are stripped, as by strip(" ")
StripSpacesOnly(s) ==
  LET keep == {i \in 1..Len(s) : s[i] # " "}
  IN  IF keep = {} THEN <<>> ELSE SubSeq(s, MinOf(keep), MaxOf(keep))

\* str.strip()
Strip(s) ==
  LET keep == {i \in 1..Len(s) : ~IsSpace(s[i])}
  IN  IF keep = {} THEN <<>> ELSE SubSeq(s, MinOf(keep), MaxOf(keep))

\* sub occurs in s at the 1-based position i
OccursAt(sub, s, i) ==
  /\ i >= 1
  /\ i + Len(sub) - 1 <= Len(s)
  /\ \A j \in 1..Len(sub) : s[i + j - 1] = sub[j]

\* str.find(sub): 0-based index of the first occurrence, -1 when there is none
Find(sub, s) ==
  LET at == {i \in 1..(Len(s) + 1) : OccursAt(sub, s, i)}
  IN  IF at = {} THEN -1 ELSE MinOf(at) - 1

\* the `in` operator on strings
Contains(sub, s) == Find(sub, s) >= 0

\* 1-based starts of the non-overlapping occurrences of a non-empty sub in s,
\* scanning left to right from position i (str.count, re.finditer, re.sub)
RECURSIVE StartsFrom(_, _, _)
StartsFrom(sub, s, i) ==
  IF i + Len(sub) - 1 > Len(s) THEN <<>>
  ELSE IF OccursAt(sub, s, i)
       THEN <<i>> \o StartsFrom(sub, s, i + Len(sub))
       ELSE StartsFrom(sub, s, i + 1)

\* str.count(sub) for a non-empty sub
Count(sub, s) == Len(StartsFrom(sub, s, 1))

\* str.endswith(suffix)
EndsWith(s, suffix) ==
  /\ Len(suffix) <= Len(s)
  /\ SubSeq(s, Len(s) - Len(suffix) + 1, Len(s)) = suffix

\* the maximal runs of characters outside seps, in order, from position i
RECURSIVE RunsFrom(_, _, _)
RunsFrom(s, seps, i) ==
  IF i > Len(s) THEN <<>>
  ELSE IF s[i] \in seps THEN RunsFrom(s, seps, i + 1)
  ELSE LET stops == {j \in i..Len(s) : s[j] \in seps}
           last  == IF stops = {} THEN Len(s) ELSE MinOf(stops) - 1
       IN  <<SubSeq(s, i, last)>> \o RunsFrom(s, seps, last + 1)

\* str.split(): the whitespace-separated words
Split(s) == RunsFrom(s, {" ", "\n", "\t"}, 1)

\* "sep".join(parts)
RECURSIVE Join(_, _)
Join(parts, sep) ==
  IF parts = <<>> THEN <<>>
  ELSE IF Len(parts) = 1 THEN parts[1]
  ELSE parts[1] \o sep \o Join(Tail(parts), sep)

\* the elements of a sequence that satisfy Test, in order
SelectSeqIdx(s, keep) ==
  LET F[i \in 0..Len(s)] ==
        IF i = 0 THEN <<>>
        ELSE IF i \in keep THEN Append(F[i - 1], s[i]) ELSE F[i - 1]
  IN  F[Len(s)]

\* seq[:n] for n >= 0
Take(s, n) == SubSeq(s, 1, IF n < Len(s) THEN n ELSE Len(s))

-----------------------------------------------------------------------------
(* The files a user can upload.  A file is its upload directory, its file  *)
(* name, whether the path exists, whether the parsing library can open it  *)
(* (ok), the texts the library yields (the pages' text layers of a PDF,    *)
(* the paragraphs of a DOCX) and, for a ZIP, its entries (name relative to *)
(* the archive root, in archive order).                                    *)

File(dir, name, exists, ok, parts, entries) ==
  [dir |-> dir, name |-> name, exists |-> exists, ok |-> ok,
   parts |-> parts, entries |-> entries]

N_x_pdf  == <<"x", ".", "p", "d", "f">>
N_w_pdf  == <<"w", ".", "p", "d", "f">>
N_s_PDF  == <<"s", ".", "P", "D", "F">>
N_y_docx == <<"y", ".", "d", "o", "c", "x">>
N_t_txt  == <<"t", ".", "t", "x", "t">>
N_z_zip  == <<"z", ".", "z", "i", "p">>
N_i_zip  == <<"i", ".", "z", "i", "p">>
N_n_pdf  == <<"n", ".", "p", "d", "f">>
N_dx_pdf == <<"d", "/", "x", ".", "p", "d", "f">>

\* "Abc abc." then "ab c": a two-page PDF
GoodPdf == File("A", N_x_pdf, TRUE, TRUE,
                << <<"A", "b", "c", " ", "a", "b", "c", ".">>,
                   <<"a", "b", " ", "c">> >>, <<>>)

\* a corrupt PDF with the same file name, uploaded from another directory
CorruptPdf == File("B", N_x_pdf, TRUE, FALSE, <<>>, <<>>)

\* a scanned PDF: one page whose text layer is blank
ScannedPdf == File("A", N_s_PDF, TRUE, TRUE, << <<" ", "\n">> >>, <<>>)

\* "abc", a blank paragraph, "Ab? c"
GoodDocx == File("A", N_y_docx, TRUE, TRUE,
                 << <<"a", "b", "c">>, <<" ">>,
                    <<"A", "b", "?", " ", "c">> >>, <<>>)

\* a plain text file
TextFile == File("A", N_t_txt, TRUE, TRUE, << <<"a", "b", "c">> >>, <<>>)

\* a path that no longer exists
MissingFile == File("A", N_w_pdf, FALSE, TRUE, <<>>, <<>>)

\* the archive inside the archive
InnerZip == File("", N_i_zip, TRUE, TRUE, <<>>,
                 << File("", N_n_pdf, TRUE, TRUE,
                         << <<"a", "b", "c">> >>, <<>>) >>)

\* d/x.pdf ("abc abc"), i.zip, t.txt
GoodZip == File("A", N_z_zip, TRUE, TRUE, <<>>,
                << File("", N_dx_pdf, TRUE, TRUE,
                        << <<"a", "b", "c", " ", "a", "b", "c">> >>, <<>>),
                   InnerZip,
                   File("", N_t_txt, TRUE, TRUE, << <<"a", "b", "c">> >>, <<>>) >>)

\* a file named .zip that is no archive
CorruptZip == File("B", N_z_zip, TRUE, FALSE, <<>>, <<>>)

Uploadable ==
  {GoodPdf, CorruptPdf, ScannedPdf, GoodDocx, TextFile, MissingFile,
   GoodZip, CorruptZip}

\* the sequences of at most n elements of S
SeqUpTo(S, n) == UNION {[1..m -> S] : m \in 0..n}

\* name.lower().endswith(ext)
HasExt(name, ext) == EndsWith(LowerS(name), ext)

DotPdf  == <<".", "p", "d", "f">>
DotDocx == <<".", "d", "o", "c", "x">>
DotZip  == <<".", "z", "i", "p">>

-----------------------------------------------------------------------------
(* State.                                                                  *)

VARIABLES
  app,             \* which of the two programs this run executes
  DOCS,            \* Gradio: the module-level store, relative path -> info
  tmpDirs,         \* Gradio: the docsearch_* directories that exist on disk
  documents,       \* Streamlit: st.session_state.documents
  metadata,        \* Streamlit: st.session_state.metadata
  search_results,  \* Streamlit: st.session_state.search_results
  current_page,    \* Streamlit: st.session_state.current_page
  call,            \* the last operation called and its arguments
  ret,             \* what that operation returned or displayed
  session,         \* the browser session whose event the server handles
  parked           \* Streamlit: the st.session_state of the other session

vars == <<app, DOCS, tmpDirs, documents, metadata, search_results,
          current_page, call, ret, session, parked>>

Call(op, files, query, k) ==
  [op |-> op, files |-> files, query |-> query, k |-> k]

\* msg: the kind of message; processed, errors: the upload summary;
\* hits: the Gradio result list; shown: the Streamlit result cards
Ret(msg, processed, errors, hits, shown) ==
  [msg |-> msg, processed |-> processed, errors |-> errors, hits |-> hits,
   shown |-> shown]

\* a dict with no key
EmptyMap == [p \in {} |-> {}]

\* d[k] = v
Put(d, k, v) == [p \in (DOMAIN d) \cup {k} |-> IF p = k THEN v ELSE d[p]]

-----------------------------------------------------------------------------
(* Gradio app: src/AI_Scanner.app.py                                       *)

\* characters of context kept on each side of a match in a snippet
SnippetWindow == 120

\* snippets shown per file
MaxSnippets == 5

\* the text of all parts, one after the other
RECURSIVE Concat(_)
Concat(parts) ==
  IF parts = <<>> THEN <<>> ELSE Head(parts) \o Concat(Tail(parts))

\* extract_text_pdf: the pages' text, "" when the library raises
extract_text_pdf(f) == IF f.ok THEN Concat(f.parts) ELSE <<>>

\* extract_text_docx: the paragraphs joined by newlines, "" when it raises
extract_text_docx(f) == IF f.ok THEN Join(f.parts, <<"\n">>) ELSE <<>>

\* mutant of ExtractAll: an entry that is itself an archive is opened and
\* its entries are written too
RECURSIVE ExtractAllNested(_, _)
ExtractAllNested(fs, entries) ==
  IF entries = <<>> THEN fs
  ELSE IF EndsWith(LowerS(Head(entries).name), <<".", "z", "i", "p">>)
  THEN ExtractAllNested(ExtractAllNested(fs, Head(entries).entries),
                        Tail(entries))
  ELSE ExtractAllNested(Put(fs, Head(entries).name, Head(entries)),
                        Tail(entries))

\* z.extractall(tmp): every entry is written at its relative path
RECURSIVE ExtractAll(_, _)
ExtractAll(fs, entries) ==
  IF entries = <<>> THEN fs
  ELSE ExtractAll(Put(fs, Head(entries).name, Head(entries)), Tail(entries))

\* step 1 of process_upload for one path: copy it or extract it into tmp
\* st = [fs: the files under tmp, errors: the warnings so far]
CopyOrExtract(st, f) ==
  IF ~f.exists
  THEN [st EXCEPT !.errors =
          Append(@, [what |-> "File not found", name |-> f.name])]
  ELSE IF HasExt(f.name, DotZip)
  THEN IF f.ok
       THEN [st EXCEPT !.fs = ExtractAll(@, f.entries)]
       ELSE [st EXCEPT !.errors =
               Append(@, [what |-> "Failed to extract", name |-> f.name])]
  ELSE [st EXCEPT !.fs = Put(@, f.name, f)]

RECURSIVE CopyAll(_, _)
CopyAll(st, files) ==
  IF files = <<>> THEN st
  ELSE CopyAll(CopyOrExtract(st, Head(files)), Tail(files))

NoTextNote == "(no text extracted)"

\* step 2 of process_upload for one file found under tmp
DocInfo(f, rel, tmp) ==
  LET text == IF HasExt(rel, DotPdf) THEN extract_text_pdf(f)
              ELSE extract_text_docx(f)
  IN  [text |-> text,
       note |-> IF Strip(text) = <<>> THEN NoTextNote ELSE "",
       path |-> [tmp |-> tmp, rel |-> rel]]

\* process_upload for a non-empty list: the new DOCS and the summary.
\* os.walk's order within a directory is the file system's, so the order of
\* `processed` (and of DOCS) is left open: both are kept unordered.
process_upload(files, tmp) ==
  LET st   == CopyAll([fs |-> EmptyMap, errors |-> <<>>], files)
      docs == {rel \in DOMAIN st.fs :
                 HasExt(rel, DotPdf) \/ HasExt(rel, DotDocx)}
  IN  [docs      |-> [rel \in docs |-> DocInfo(st.fs[rel], rel, tmp)],
       processed |-> docs,
       errors    |-> st.errors]

\* s from position i on, with every occurrence of the lower-cased term tl in
\* the lower-cased text sl wrapped in open ... close
RECURSIVE HighlightFrom(_, _, _, _, _, _)
HighlightFrom(tl, sl, s, i, open, close) ==
  IF i > Len(s) THEN <<>>
  ELSE IF tl # <<>> /\ OccursAt(tl, sl, i)
  THEN <<open>> \o SubSeq(s, i, i + Len(tl) - 1) \o <<close>>
         \o HighlightFrom(tl, sl, s, i + Len(tl), open, close)
  ELSE <<s[i]>> \o HighlightFrom(tl, sl, s, i + 1, open, close)

\* mutant of Highlight: the substitution runs over the lower-cased text
HighlightLowered(term, s, open, close) ==
  HighlightFrom(LowerS(term), LowerS(s), LowerS(s), 1, open, close)

\* re.sub of the escaped term, ignoring case, by the marked-up match
Highlight(term, s, open, close) ==
  HighlightFrom(LowerS(term), LowerS(s), s, 1, open, close)

\* one snippet of search_docs: the match at the 1-based position at, with
\* its context, newlines replaced by spaces, the keyword highlighted
Snippet(text, k, at) ==
  LET s     == at - 1
      e     == s + Len(k)
      start == IF s - SnippetWindow > 0 THEN s - SnippetWindow ELSE 0
      end   == IF e + SnippetWindow < Len(text) THEN e + SnippetWindow
               ELSE Len(text)
      cut   == SubSeq(text, start + 1, end)
      flat  == [i \in 1..Len(cut) |-> IF cut[i] = "\n" THEN " " ELSE cut[i]]
  IN  Highlight(k, flat, "<mark>", "</mark>")

\* the result block of search_docs for one file, for the stripped keyword k
FileHits(fname, text, k) ==
  LET starts == StartsFrom(LowerS(k), LowerS(text), 1)
      n      == Len(starts)
      shown  == IF n < MaxSnippets THEN n ELSE MaxSnippets
  IN  [fname    |-> fname,
       count    |-> n,
       snippets |-> [i \in 1..shown |-> Snippet(text, k, starts[i])],
       more     |-> n - shown]

\* search_docs: the files with at least one match (the order of the blocks
\* is the order of DOCS, left open)
search_docs(keyword, docs) ==
  IF keyword = <<>> \/ Strip(keyword) = <<>>
  THEN Ret("enter a keyword", {}, <<>>, {}, <<>>)
  ELSE LET k    == Strip(keyword)
           hits == {FileHits(f, docs[f].text, k) :
                      f \in {g \in DOMAIN docs :
                               /\ docs[g].text # <<>>
                               /\ StartsFrom(LowerS(k), LowerS(docs[g].text), 1)
                                    # <<>>}}
       IN  Ret(IF hits = {} THEN "no matches" ELSE "results",
               {}, <<>>, hits, <<>>)

-----------------------------------------------------------------------------
(* Streamlit app: src/app.py                                               *)

\* a call that either raises or returns a text
Raised == [raised |-> TRUE, text |-> <<>>]

Returned(text) == [raised |-> FALSE, text |-> text]

\* the parts in keep, each followed by a newline, one after the other
RECURSIVE Lines(_, _, _)
Lines(parts, keep, i) ==
  IF i > Len(parts) THEN <<>>
  ELSE (IF i \in keep THEN parts[i] \o <<"\n">> ELSE <<>>)
         \o Lines(parts, keep, i + 1)

\* DocumentProcessor.extract_text_from_pdf: the non-empty pages, one per
\* line, stripped; any library error is raised again
extract_text_from_pdf(f) ==
  IF ~f.ok THEN Raised
  ELSE Returned(Strip(Lines(f.parts,
                            {i \in 1..Len(f.parts) : f.parts[i] # <<>>}, 1)))

\* DocumentProcessor.extract_text_from_docx: the non-blank paragraphs
extract_text_from_docx(f) ==
  IF ~f.ok THEN Raised
  ELSE Returned(Strip(Lines(f.parts,
                            {i \in 1..Len(f.parts) : Strip(f.parts[i]) # <<>>},
                            1)))

\* DocumentProcessor.analyze_text_content(text)['sentences']:
\* re.split(r'[.!?]+', text), each piece stripped, the empty ones dropped
Sentences(text) ==
  LET runs == RunsFrom(text, {".", "!", "?"}, 1)
      trim == [i \in 1..Len(runs) |-> Strip(runs[i])]
  IN  SelectSeqIdx(trim, {i \in 1..Len(trim) : trim[i] # <<>>})

\* the metadata entry handle_file_upload builds (the fields search and the
\* claims read: upload_date, file_size, the word statistics and the preview
\* are display-only)
Meta(name, text) ==
  [filename |-> name, sentences |-> Sentences(text), content |-> text]

\* mutant of HandleOne: the metadata entry is appended before the text is
\* tested, the document only when there is text
HandleOneMetaFirst(st, f) ==
  LET r == IF HasExt(f.name, DotPdf) THEN extract_text_from_pdf(f)
           ELSE IF HasExt(f.name, DotDocx) THEN extract_text_from_docx(f)
           ELSE Returned(<<>>)
  IN  IF r.raised
      THEN [st EXCEPT !.errors = Append(@, f.name)]
      ELSE IF r.text # <<>>
      THEN [st EXCEPT !.documents = Append(@, r.text),
                      !.metadata  = Append(@, Meta(f.name, r.text))]
      ELSE [st EXCEPT !.metadata  = Append(@, Meta(f.name, r.text))]

\* one iteration of the loop of handle_file_upload
\* st = [documents, metadata, errors]
HandleOne(st, f) ==
  LET r == IF HasExt(f.name, DotPdf) THEN extract_text_from_pdf(f)
           ELSE IF HasExt(f.name, DotDocx) THEN extract_text_from_docx(f)
           ELSE Returned(<<>>)
  IN  IF r.raised
      THEN [st EXCEPT !.errors = Append(@, f.name)]
      ELSE IF r.text # <<>>
      THEN [st EXCEPT !.documents = Append(@, r.text),
                      !.metadata  = Append(@, Meta(f.name, r.text))]
      ELSE st

RECURSIVE HandleAll(_, _)
HandleAll(st, files) ==
  IF files = <<>> THEN st
  ELSE HandleAll(HandleOne(st, Head(files)), Tail(files))

\* MeetSearchApplication.handle_file_upload
handle_file_upload(uploaded_files) ==
  HandleAll([documents |-> <<>>, metadata |-> <<>>, errors |-> <<>>],
            uploaded_files)

\* the ZIP branch of render_upload_section: the entries named .pdf or .docx
ZipMembers(zip) ==
  SelectSeqIdx(zip.entries,
               {i \in 1..Len(zip.entries) :
                  \/ HasExt(zip.entries[i].name, DotPdf)
                  \/ HasExt(zip.entries[i].name, DotDocx)})

-----------------------------------------------------------------------------
(* SearchEngine.semantic_keyword_search.  Scores are kept as the exact     *)
(* fractions n/d (d > 0) that the code's floating-point values round.      *)

RECURSIVE GCD(_, _)
GCD(a, b) == IF b = 0 THEN a ELSE GCD(b, a % b)

\* n/d in lowest terms (n >= 0, d > 0)
Frac(n, d) == LET g == GCD(n, d) IN [n |-> n \div g, d |-> d \div g]

FracLeq(a, b) == a.n * b.d <= b.n * a.d

FracEq(a, b) == a.n * b.d = b.n * a.d

\* query terms of this length or shorter are dropped
MinTermLen == 2

\* base_score reaches 1.0 at this many occurrences per query term
TermSaturation == 5

\* length_factor reaches 1.0 at this many characters
LengthSaturation == 1000

\* contextual matches kept per result
MaxMatches == 3

\* mutant of InsertDesc: a sort that is not stable (a new item goes before
\* the items it equals)
RECURSIVE InsertDescUnstable(_, _, _)
InsertDescUnstable(sorted, x, key) ==
  IF sorted = <<>> THEN <<x>>
  ELSE IF FracLeq(Head(sorted)[key], x[key])
       THEN <<x>> \o sorted
       ELSE <<Head(sorted)>> \o InsertDescUnstable(Tail(sorted), x, key)

\* one step of sorted(items, key, reverse=True): x goes after the items whose
\* key is at least its own (Python's sort is stable, also under reverse=True)
RECURSIVE InsertDesc(_, _, _)
InsertDesc(sorted, x, key) ==
  IF sorted = <<>> THEN <<x>>
  ELSE IF FracLeq(x[key], Head(sorted)[key])
       THEN <<Head(sorted)>> \o InsertDesc(Tail(sorted), x, key)
       ELSE <<x>> \o sorted

SortedDesc(items, key) ==
  LET F[i \in 0..Len(items)] ==
        IF i = 0 THEN <<>> ELSE InsertDesc(F[i - 1], items[i], key)
  IN  F[Len(items)]

\* mutant of QueryTerms: the length test off by one
QueryTermsOffByOne(query) ==
  LET words == Split(LowerS(query))
  IN  SelectSeqIdx(words,
                   {i \in 1..Len(words) : Len(words[i]) > MinTermLen + 1})

\* query_terms: the lower-cased words of the query longer than two characters
QueryTerms(query) ==
  LET words == Split(LowerS(query))
  IN  SelectSeqIdx(words, {i \in 1..Len(words) : Len(words[i]) > MinTermLen})

MarkOpen == "<mark style>"

MarkClose == "</mark>"

\* the match record of one term in one sentence (sent_idx counts from 0)
SemanticMatch(term, sentence, sent_idx) ==
  LET pos == Find(term, LowerS(sentence))
      len == IF Len(sentence) > 1 THEN Len(sentence) ELSE 1
  IN  [sentence   |-> Highlight(term, sentence, MarkOpen, MarkClose),
       \* 0.3 + 0.7 * (1.0 - pos / len)
       similarity |-> Frac(10 * len - 7 * pos, 10 * len),
       position   |-> sent_idx,
       term       |-> term]

\* the matches of one term, sentence by sentence
TermMatches(term, sentences) ==
  LET F[i \in 0..Len(sentences)] ==
        IF i = 0 THEN <<>>
        ELSE IF Contains(term, LowerS(sentences[i]))
             THEN Append(F[i - 1], SemanticMatch(term, sentences[i], i - 1))
             ELSE F[i - 1]
  IN  F[Len(sentences)]

\* semantic_matches: term by term
RECURSIVE SemanticMatches(_, _)
SemanticMatches(terms, sentences) ==
  IF terms = <<>> THEN <<>>
  ELSE TermMatches(Head(terms), sentences)
         \o SemanticMatches(Tail(terms), sentences)

\* term_frequency: the occurrences of every term in the document
RECURSIVE TermFrequency(_, _)
TermFrequency(terms, document_lower) ==
  IF terms = <<>> THEN 0
  ELSE Count(Head(terms), document_lower)
         + TermFrequency(Tail(terms), document_lower)

\* relevance_score = base_score * 0.4 + length_factor * 0.3
\*                   + match_quality * 0.3
Relevance(tf, nterms, doclen, nmatches, nsentences) ==
  LET cap  == nterms * TermSaturation
      base == IF tf < cap THEN tf ELSE cap           \* over cap
      len  == IF doclen < LengthSaturation THEN doclen
              ELSE LengthSaturation                  \* over LengthSaturation
      ns   == IF nsentences > 1 THEN nsentences ELSE 1
  IN  Frac(4 * base * LengthSaturation * ns
             + 3 * len * cap * ns
             + 3 * nmatches * cap * LengthSaturation,
           10 * cap * LengthSaturation * ns)

\* the result record of one document, <<>> when no term occurs in it
DocResult(terms, document, meta) ==
  LET tf      == TermFrequency(terms, LowerS(document))
      matches == SemanticMatches(terms, meta.sentences)
  IN  IF tf > 0
      THEN << [document |-> document,
               metadata |-> meta,
               score    |-> Relevance(tf, Len(terms), Len(document),
                                      Len(matches), Len(meta.sentences)),
               matches  |-> Take(SortedDesc(matches, "similarity"),
                                 MaxMatches)] >>
      ELSE <<>>

\* the results of the scoring loop, in corpus order (zip stops at the
\* shorter of the two lists)
ScoredResults(terms, docs, metas) ==
  LET n == IF Len(docs) < Len(metas) THEN Len(docs) ELSE Len(metas)
      F[i \in 0..n] ==
        IF i = 0 THEN <<>>
        ELSE F[i - 1] \o DocResult(terms, docs[i], metas[i])
  IN  F[n]

\* mutant of RankAndCut: the list is cut before it is ranked
CutThenRank(results, top_k) == SortedDesc(Take(results, top_k), "score")

\* sorted(results, key=score, reverse=True)[:top_k]
RankAndCut(results, top_k) == Take(SortedDesc(results, "score"), top_k)

semantic_keyword_search(query, docs, metas, top_k) ==
  IF query = <<>> \/ docs = <<>> THEN <<>>
  ELSE LET terms == QueryTerms(query)
       IN  IF terms = <<>> THEN <<>>
           ELSE RankAndCut(ScoredResults(terms, docs, metas), top_k)

-----------------------------------------------------------------------------
(* Inputs.                                                                 *)

Words == {<<"a", "b", "c">>, <<"A", "B">>}

\* "", and the words joined by single spaces, up to MaxQueryTerms of them
WordQueries == {Join(ws, <<" ">>) : ws \in SeqUpTo(Words, MaxQueryTerms)}

\* blank queries, a padded query, a word that occurs in no file
Queries ==
  WordQueries \cup
  { <<" ">>, <<"\n", " ", "\t">>, <<" ", "a", "b", "c", "\n">>,
    <<"c", "b", "a">> }

\* the queries typed into the Streamlit search box: none, a blank one, one
\* word, a short and a long word, the same word three times, an absent word
SessionQueries ==
  { <<>>, <<" ">>, <<"a", "b", "c">>, <<"A", "B", " ", "a", "b", "c">>,
    <<"a", "b", "c", " ", "a", "b", "c", " ", "a", "b", "c">>,
    <<"c", "b", "a">> }

\* what Gradio's upload component can hand to process_upload
Batches == SeqUpTo(Uploadable, MaxBatch)

\* what st.file_uploader(type=['pdf', 'docx']) can hold
SingleFiles ==
  {f \in Uploadable : f.exists /\ (HasExt(f.name, DotPdf) \/ HasExt(f.name, DotDocx))}

\* what st.file_uploader(type=['zip']) can hold
ZipFiles == {f \in Uploadable : f.exists /\ HasExt(f.name, DotZip)}

\* the choices of the "Results:" select box
ResultCounts == {5, 10, 20, 50}

Pages == {"dashboard", "upload", "search", "analytics"}

NoCall == Call("none", <<>>, <<>>, 0)

NoRet == Ret("", {}, <<>>, {}, <<>>)

-----------------------------------------------------------------------------
(* Gradio handlers.                                                        *)

\* proc_btn.click(fn=process_upload): DOCS is cleared and a temporary
\* directory is made before the list is looked at; nothing removes it
proc_btn_click(files) ==
  /\ app = "gradio"
  /\ Cardinality(tmpDirs) < MaxTmpDirs
  /\ LET tmp == Cardinality(tmpDirs) + 1
         r   == process_upload(files, tmp)
     IN  /\ tmpDirs' = tmpDirs \cup {tmp}
         /\ IF files = <<>>
            THEN /\ DOCS' = EmptyMap
                 /\ ret' = Ret("no files uploaded", {}, <<>>, {}, <<>>)
            ELSE /\ DOCS' = r.docs
                 /\ ret' = Ret("processed", r.processed, r.errors, {}, <<>>)
  /\ call' = Call("process_upload", files, <<>>, 0)
  /\ UNCHANGED <<session, parked>>
  /\ UNCHANGED <<app, documents, metadata, search_results, current_page>>

\* search_btn.click(fn=search_docs)
search_btn_click(keyword) ==
  /\ app = "gradio"
  /\ ret' = search_docs(keyword, DOCS)
  /\ call' = Call("search_docs", <<>>, keyword, 0)
  /\ UNCHANGED <<session, parked>>
  /\ UNCHANGED <<app, DOCS, tmpDirs, documents, metadata, search_results,
                 current_page>>

\* mutant of clear_docs: a fresh dict is bound to a local name and the
\* module-level store keeps its entries
clear_docs_rebinds(docs) == docs

\* mutant of clear_docs: one entry is dropped, as by DOCS.popitem(), and
\* the others stay
clear_docs_popitem(docs) ==
  IF DOMAIN docs = {} THEN docs
  ELSE LET gone == CHOOSE rel \in DOMAIN docs : TRUE
       IN  [rel \in (DOMAIN docs) \ {gone} |-> docs[rel]]

\* clear_docs: DOCS.clear()
clear_docs(docs) == EmptyMap

\* clear_btn.click(fn=clear_docs)
clear_btn_click ==
  /\ app = "gradio"
  /\ DOCS' = clear_docs(DOCS)
  /\ ret' = Ret("cleared", {}, <<>>, {}, <<>>)
  /\ call' = Call("clear_docs", <<>>, <<>>, 0)
  /\ UNCHANGED <<session, parked>>
  /\ UNCHANGED <<app, tmpDirs, documents, metadata, search_results,
                 current_page>>

-----------------------------------------------------------------------------
(* Streamlit handlers (one script run each).                               *)

\* render_sidebar: the navigation select box sets current_page
render_sidebar(page) ==
  /\ app = "streamlit"
  /\ current_page' = page
  /\ call' = Call("render_sidebar", <<>>, <<>>, 0)
  /\ ret' = NoRet
  /\ UNCHANGED <<session, parked>>
  /\ UNCHANGED <<app, DOCS, tmpDirs, documents, metadata, search_results>>

StError(what, name) == [what |-> what, name |-> name]

\* the errors of handle_file_upload as st.error lines
ErrorLines(names) ==
  [i \in 1..Len(names) |-> StError("Error processing", names[i])]

\* the rest of render_upload_section once uploaded_files is known and
\* "Process Documents" is clicked; zipErrors: what the ZIP branch reported
ProcessDocuments(files, uploaded, zipErrors) ==
  /\ call' = Call("render_upload_section", files, <<>>, 0)
  /\ IF uploaded = <<>>
     THEN /\ ret' = Ret("", {}, zipErrors, {}, <<>>)
          /\ UNCHANGED <<documents, metadata>>
     ELSE LET h == handle_file_upload(uploaded)
          IN  IF h.documents # <<>>
              THEN /\ documents' = h.documents
                   /\ metadata' = h.metadata
                   /\ ret' = Ret("success",
                                 {h.metadata[i].filename :
                                    i \in 1..Len(h.metadata)},
                                 zipErrors \o ErrorLines(h.errors), {}, <<>>)
              ELSE /\ ret' = Ret("", {}, zipErrors \o ErrorLines(h.errors),
                                 {}, <<>>)
                   /\ UNCHANGED <<documents, metadata>>
  /\ UNCHANGED <<session, parked>>
  /\ UNCHANGED <<app, DOCS, tmpDirs, search_results, current_page>>

\* render_upload_section, "Single Files"
upload_single_files(files) ==
  /\ app = "streamlit"
  /\ current_page = "upload"
  /\ ProcessDocuments(files, files, <<>>)

\* render_upload_section, "ZIP Archive"
upload_zip_archive(zip) ==
  /\ app = "streamlit"
  /\ current_page = "upload"
  /\ IF zip.ok
     THEN ProcessDocuments(<<zip>>, ZipMembers(zip), <<>>)
     ELSE ProcessDocuments(<<zip>>, <<>>,
                           <<StError("Error reading ZIP archive", zip.name)>>)

\* render_search_section
render_search_section(search_query, results_count) ==
  /\ app = "streamlit"
  /\ current_page = "search"
  /\ call' = Call("render_search_section", <<>>, search_query, results_count)
  /\ IF documents = <<>>
     THEN /\ ret' = Ret("no documents", {}, <<>>, {}, <<>>)
          /\ UNCHANGED search_results
     ELSE IF search_query = <<>>
     THEN /\ ret' = NoRet
          /\ UNCHANGED search_results
     ELSE LET results == semantic_keyword_search(search_query, documents,
                                                 metadata, results_count)
          IN  /\ search_results' = results
              /\ ret' = Ret(IF results = <<>> THEN "no matches" ELSE "found",
                            {}, <<>>, {}, results)
  /\ UNCHANGED <<session, parked>>
  /\ UNCHANGED <<app, DOCS, tmpDirs, documents, metadata, current_page>>

-----------------------------------------------------------------------------
(* The two applications.                                                   *)

\* initialize_application: the st.session_state of a session that starts
FreshSessionState ==
  [documents |-> <<>>, metadata |-> <<>>, search_results |-> <<>>,
   current_page |-> "dashboard"]

Init ==
  /\ app \in {"gradio", "streamlit"}
  /\ DOCS = EmptyMap
  /\ tmpDirs = {}
  /\ documents = <<>>
  /\ metadata = <<>>
  /\ search_results = <<>>
  /\ current_page = "dashboard"
  /\ call = NoCall
  /\ ret = NoRet
  /\ session = 1
  /\ parked = FreshSessionState

Next ==
  \/ \E files \in Batches : proc_btn_click(files)
  \/ \E keyword \in Queries : search_btn_click(keyword)
  \/ clear_btn_click
  \/ \E page \in Pages : render_sidebar(page)
  \/ \E files \in SeqUpTo(SingleFiles, MaxBatch) : upload_single_files(files)
  \/ \E zip \in ZipFiles : upload_zip_archive(zip)
  \/ \E q \in SessionQueries, k \in ResultCounts :
       render_search_section(q, k)

Spec == Init /\ [][Next]_vars

-----------------------------------------------------------------------------
(* The two search functions on their own: Init draws a corpus and the      *)
(* arguments of one call, the actions apply the function.                  *)

\* texts as handle_file_upload stores them (stripped, not empty):
\* "Abc abc.\nab c", "abc abc", "abc\nAb? c", "ab"
EngineTexts ==
  { <<"A", "b", "c", " ", "a", "b", "c", ".", "\n", "a", "b", " ", "c">>,
    <<"a", "b", "c", " ", "a", "b", "c">>,
    <<"a", "b", "c", "\n", "A", "b", "?", " ", "c">>,
    <<"a", "b">> }

\* the file name of the i-th document of a drawn corpus
DocName(i) == <<"f", <<"1", "2", "3", "4", "5">>[i], ".", "p", "d", "f">>

\* the stores process_upload can leave behind
GradioStores == {process_upload(b, 1).docs : b \in Batches}

InitSearch ==
  /\ app \in {"gradio", "streamlit"}
  /\ search_results = <<>>
  /\ current_page = "search"
  /\ ret = NoRet
  /\ session = 1
  /\ parked = FreshSessionState
  /\ \/ /\ app = "gradio"
        /\ DOCS \in GradioStores
        /\ tmpDirs = {1}
        /\ documents = <<>>
        /\ metadata = <<>>
        /\ call \in {Call("pending", <<>>, q, 0) : q \in Queries}
     \/ /\ app = "streamlit"
        /\ DOCS = EmptyMap
        /\ tmpDirs = {}
        /\ documents \in SeqUpTo(EngineTexts, MaxDocs)
        /\ metadata = [i \in 1..Len(documents) |-> Meta(DocName(i), documents[i])]
        /\ call \in {Call("pending", <<>>, q, k) : q \in Queries, k \in 0..MaxTopK}

\* search_docs(keyword) on the drawn store
apply_search_docs ==
  /\ app = "gradio"
  /\ call.op = "pending"
  /\ ret' = search_docs(call.query, DOCS)
  /\ call' = [call EXCEPT !.op = "search_docs"]
  /\ UNCHANGED <<session, parked>>
  /\ UNCHANGED <<app, DOCS, tmpDirs, documents, metadata, search_results,
                 current_page>>

\* SearchEngine.semantic_keyword_search(query, documents, metadata, top_k)
apply_semantic_keyword_search ==
  /\ app = "streamlit"
  /\ call.op = "pending"
  /\ LET results == semantic_keyword_search(call.query, documents, metadata,
                                            call.k)
     IN  ret' = Ret(IF results = <<>> THEN "no matches" ELSE "found",
                    {}, <<>>, {}, results)
  /\ call' = [call EXCEPT !.op = "semantic_keyword_search"]
  /\ UNCHANGED <<session, parked>>
  /\ UNCHANGED <<app, DOCS, tmpDirs, documents, metadata, search_results,
                 current_page>>

NextSearch == apply_search_docs \/ apply_semantic_keyword_search

SpecSearch == InitSearch /\ [][NextSearch]_vars

-----------------------------------------------------------------------------
(* Vocabulary of the properties.                                           *)

\* sub occurs in text when letter case is ignored
ContainsCI(sub, text) ==
  \E i \in 1..(Len(text) + 1) :
    /\ i + Len(sub) - 1 <= Len(text)
    /\ \A j \in 1..Len(sub) : Lower(text[i + j - 1]) = Lower(sub[j])

\* the query is empty or holds only whitespace
IsBlankQuery(q) == \A i \in 1..Len(q) : q[i] \in {" ", "\n", "\t"}

\* the query without its leading and trailing whitespace
Trimmed(q) ==
  LET keep == {i \in 1..Len(q) : q[i] \notin {" ", "\n", "\t"}}
  IN  IF keep = {} THEN <<>> ELSE SubSeq(q, MinOf(keep), MaxOf(keep))

IsDocument(f) == HasExt(f.name, DotPdf) \/ HasExt(f.name, DotDocx)

\* a file the application cannot read: the path is gone or the parser fails
Unreadable(f) == ~f.exists \/ ~f.ok

\* the text the Gradio app extracts from a document file
GradioText(f) ==
  IF HasExt(f.name, DotPdf) THEN extract_text_pdf(f) ELSE extract_text_docx(f)

\* the text the Streamlit app extracts from a well-formed document file
StreamlitText(f) ==
  IF HasExt(f.name, DotPdf) THEN extract_text_from_pdf(f).text
  ELSE extract_text_from_docx(f).text

\* the files of a batch: the uploads themselves and, one level down, the
\* entries of the archives that open
BatchFiles(files) ==
  {files[i] : i \in 1..Len(files)} \cup
  UNION {{files[i].entries[j] : j \in 1..Len(files[i].entries)} :
           i \in {k \in 1..Len(files) :
                    /\ HasExt(files[k].name, DotZip)
                    /\ files[k].exists /\ files[k].ok}}

\* the summary of the last upload names f as failed: a warning line, or a
\* processed entry carrying the no-text note
MarkedFailedGradio(f) ==
  \/ \E i \in 1..Len(ret.errors) : ret.errors[i].name = f.name
  \/ /\ f.name \in ret.processed
     /\ f.name \in DOMAIN DOCS
     /\ DOCS[f.name].note # ""

MarkedFailedStreamlit(f) ==
  \E i \in 1..Len(ret.errors) : ret.errors[i].name = f.name

InGradioCorpus(f) ==
  /\ f.name \in DOMAIN DOCS
  /\ DOCS[f.name].text = GradioText(f)

InStreamlitCorpus(f) ==
  \E i \in 1..Len(documents) :
    /\ metadata[i].filename = f.name
    /\ documents[i] = StreamlitText(f)

GradioUploadDone == app = "gradio" /\ call.op = "process_upload"

StreamlitUploadDone == app = "streamlit" /\ call.op = "render_upload_section"

-----------------------------------------------------------------------------
\* C1: when the batch of the last process-uploads call holds unreadable
\* files, every such file is marked as failed in the summary, and every
\* other document file of the batch (readable, with text) is in the corpus.
C1_BatchFailuresIsolated ==
  /\ GradioUploadDone =>
       \A f \in {call.files[i] : i \in 1..Len(call.files)} :
         /\ Unreadable(f) => MarkedFailedGradio(f)
         /\ ( /\ \E g \in BatchFiles(call.files) : Unreadable(g)
              /\ ~Unreadable(f) /\ IsDocument(f)
              /\ Strip(GradioText(f)) # <<>> )
            => InGradioCorpus(f)
  /\ StreamlitUploadDone =>
       \A f \in BatchFiles(call.files) :
         /\ Unreadable(f) => MarkedFailedStreamlit(f)
         /\ ( /\ \E g \in BatchFiles(call.files) : Unreadable(g)
              /\ ~Unreadable(f) /\ IsDocument(f)
              /\ StreamlitText(f) # <<>> )
            => InStreamlitCorpus(f)

\* C2: once a process-uploads call has completed, every document of the
\* corpus is a document of that call's batch (nothing of an earlier batch
\* is left), also when the batch yields no document.
C2_CorpusIsLatestBatch ==
  /\ GradioUploadDone =>
       \A rel \in DOMAIN DOCS :
         \E f \in BatchFiles(call.files) :
           f.name = rel /\ f.exists /\ DOCS[rel].text = GradioText(f)
  /\ StreamlitUploadDone =>
       \A i \in 1..Len(documents) :
         \E f \in BatchFiles(call.files) :
           /\ ~Unreadable(f)
           /\ metadata[i].filename = f.name
           /\ documents[i] = StreamlitText(f)

\* C3: a document file of the last batch from which no text could be
\* extracted is still recorded in the corpus, flagged as having no text, and
\* no search result names a document without text.
C3_NoTextDocumentRecorded ==
  /\ GradioUploadDone =>
       \A f \in {g \in BatchFiles(call.files) : g.exists /\ IsDocument(g)} :
         Strip(GradioText(f)) = <<>> =>
           /\ f.name \in DOMAIN DOCS
           /\ Strip(DOCS[f.name].text) = <<>> => DOCS[f.name].note # ""
  /\ (app = "gradio" /\ call.op = "search_docs") =>
       \A h \in ret.hits : Strip(DOCS[h.fname].text) # <<>>
  /\ StreamlitUploadDone =>
       \A f \in {g \in BatchFiles(call.files) : g.exists /\ IsDocument(g)} :
         (~f.ok \/ StreamlitText(f) = <<>>) =>
           \E i \in 1..Len(documents) :
             metadata[i].filename = f.name /\ Strip(documents[i]) = <<>>

\* C8: the temporary directory of a process-uploads call is gone when the
\* call has returned: between calls no temporary directory exists.
C8_TempDirReleased == tmpDirs = {}

-----------------------------------------------------------------------------
(* Searching: C4 .. C7, checked under SpecSearch.                          *)

\* the words of a query: its maximal runs of characters that are not
\* whitespace
QueryWords(q) ==
  LET blank(i) == i < 1 \/ i > Len(q) \/ q[i] \in {" ", "\n", "\t"}
  IN  {SubSeq(q, a, b) : <<a, b>> \in
         {ab \in (1..Len(q)) \X (1..Len(q)) :
            /\ ab[1] <= ab[2]
            /\ \A i \in ab[1]..ab[2] : ~blank(i)
            /\ blank(ab[1] - 1) /\ blank(ab[2] + 1)}}

GradioSearchDone == app = "gradio" /\ call.op = "search_docs"

EngineSearchDone == app = "streamlit" /\ call.op = "semantic_keyword_search"

\* the Gradio search returned the file stored under rel
GradioReturned(rel) == \E h \in ret.hits : h.fname = rel

\* the Streamlit search returned the i-th document of the corpus
EngineReturned(i) ==
  \E j \in 1..Len(ret.shown) :
    ret.shown[j].metadata.filename = metadata[i].filename

\* C4 (as claimed): a search with a query that is not blank returns a
\* document if and only if the document's text contains the trimmed query,
\* letter case ignored (for the Streamlit engine: with a top_k that cuts
\* nothing off).
C4_LiteralSubstringIff ==
  /\ (GradioSearchDone /\ ~IsBlankQuery(call.query)) =>
       \A rel \in DOMAIN DOCS :
         GradioReturned(rel) <=> ContainsCI(Trimmed(call.query), DOCS[rel].text)
  /\ (EngineSearchDone /\ ~IsBlankQuery(call.query)
        /\ call.k >= Len(documents)) =>
       \A i \in 1..Len(documents) :
         EngineReturned(i) <=> ContainsCI(Trimmed(call.query), documents[i])

\* C4 (amended): search_docs returns a document if and only if its text
\* contains the trimmed query, letter case ignored; semantic_keyword_search
\* (top_k cutting nothing off) returns a document if and only if its text
\* contains, letter case ignored, at least one word of the query that is
\* longer than two characters.
C4_SearchMatchesByTerm ==
  /\ (GradioSearchDone /\ ~IsBlankQuery(call.query)) =>
       \A rel \in DOMAIN DOCS :
         GradioReturned(rel) <=> ContainsCI(Trimmed(call.query), DOCS[rel].text)
  /\ (EngineSearchDone /\ ~IsBlankQuery(call.query)
        /\ call.k >= Len(documents)) =>
       \A i \in 1..Len(documents) :
         EngineReturned(i) <=>
           \E w \in QueryWords(call.query) :
             Len(w) > 2 /\ ContainsCI(w, documents[i])

\* C4 witness: the engine returned a document for a query of a short and a
\* long word, though the document does not contain the query as a whole,
\* and left out a document that contains none of the long words.
C4_Witness ==
  /\ EngineSearchDone
  /\ call.k >= Len(documents)
  /\ \E w \in QueryWords(call.query) : Len(w) <= 2
  /\ \E i \in 1..Len(documents) :
       EngineReturned(i) /\ ~ContainsCI(Trimmed(call.query), documents[i])
  /\ \E i \in 1..Len(documents) : ~EngineReturned(i)

\* a fraction between 0 and 1
InUnitInterval(x) == 0 <= x.n /\ x.n <= x.d

\* C5: every score of a returned result lies in [0,1]: the relevance score
\* of the document and the similarity of each of its matches.
C5_ScoresInUnitInterval ==
  (app = "streamlit"
     /\ call.op \in {"semantic_keyword_search", "render_search_section"}) =>
    \A j \in 1..Len(ret.shown) :
      /\ InUnitInterval(ret.shown[j].score)
      /\ \A m \in 1..Len(ret.shown[j].matches) :
           InUnitInterval(ret.shown[j].matches[m].similarity)

\* the place in the corpus (the upload order) of a returned result
CorpusIndex(r) ==
  CHOOSE i \in 1..Len(documents) : metadata[i].filename = r.metadata.filename

\* C6: the results are ordered by non-increasing score, and two results
\* of identical score stand in the order of their documents in the corpus;
\* every result is a document of the corpus with its own metadata.
C6_RankedStable ==
  EngineSearchDone =>
    /\ \A j \in 1..Len(ret.shown) :
         /\ \E i \in 1..Len(documents) :
              metadata[i].filename = ret.shown[j].metadata.filename
         /\ ret.shown[j].document = documents[CorpusIndex(ret.shown[j])]
         /\ ret.shown[j].metadata = metadata[CorpusIndex(ret.shown[j])]
    /\ \A a, b \in 1..Len(ret.shown) :
         a < b =>
           /\ ret.shown[b].score.n * ret.shown[a].score.d
                <= ret.shown[a].score.n * ret.shown[b].score.d
           /\ ( ret.shown[b].score.n * ret.shown[a].score.d
                  = ret.shown[a].score.n * ret.shown[b].score.d )
              => CorpusIndex(ret.shown[a]) < CorpusIndex(ret.shown[b])

\* C6 witness: a search returned two results of identical score, the
\* earlier document of the corpus first.
C6_Witness ==
  /\ EngineSearchDone
  /\ Len(ret.shown) >= 2
  /\ ret.shown[1].score = ret.shown[2].score
  /\ ret.shown[1].metadata # ret.shown[2].metadata
  /\ CorpusIndex(ret.shown[1]) < CorpusIndex(ret.shown[2])

\* C7: the result of a search with top_k is the first top_k entries of the
\* result of the same search with a top_k that cuts nothing off, and has at
\* most top_k entries.
C7_TopKTruncates ==
  EngineSearchDone =>
    LET whole == semantic_keyword_search(call.query, documents, metadata,
                                         Len(documents))
    IN  /\ Len(ret.shown) <= call.k
        /\ Len(ret.shown) = (IF call.k < Len(whole) THEN call.k ELSE Len(whole))
        /\ \A j \in 1..Len(ret.shown) : ret.shown[j] = whole[j]

\* C7 witness: a search with top_k = 1 over a corpus where two documents
\* match and the later one scores higher.
C7_Witness ==
  /\ EngineSearchDone
  /\ call.k = 1
  /\ Len(ret.shown) = 1
  /\ Len(semantic_keyword_search(call.query, documents, metadata,
                                 Len(documents))) = 2
  /\ CorpusIndex(ret.shown[1]) = 2

-----------------------------------------------------------------------------
(* Searching in a session: C9, C10, checked under Spec.                    *)

\* the step is a search
SearchStep ==
  \/ app = "gradio" /\ call'.op = "search_docs"
  \/ app = "streamlit" /\ call'.op = "render_search_section"

\* C9: a search with an empty or whitespace-only query returns no match
\* record (the Gradio app answers with its guidance) and leaves the corpus as
\* it was.
C9_BlankQueryReturnsNothing ==
  [][ (SearchStep /\ IsBlankQuery(call'.query)) =>
        /\ ret'.hits = {}
        /\ ret'.shown = <<>>
        /\ app = "gradio" => ret'.msg = "enter a keyword"
        /\ DOCS' = DOCS
        /\ documents' = documents
        /\ metadata' = metadata ]_vars

\* C9 witness: the Gradio search has answered a whitespace-only query over a
\* corpus that holds a document with text.
C9_Witness ==
  /\ GradioSearchDone
  /\ call.query # <<>>
  /\ IsBlankQuery(call.query)
  /\ \E rel \in DOMAIN DOCS : ~IsBlankQuery(DOCS[rel].text)
  /\ ret.msg = "enter a keyword"

\* the corpus holds no text to search: nothing was uploaded yet, the corpus
\* was just cleared, or every document of it is without text
EmptyCorpus ==
  \/ /\ app = "gradio"
     /\ \/ call.op \in {"none", "clear_docs"}
        \/ \A rel \in DOMAIN DOCS : IsBlankQuery(DOCS[rel].text)
  \/ /\ app = "streamlit"
     /\ documents = <<>>

\* C10: a search over an empty corpus returns no match record, whatever the
\* query.
C10_EmptyCorpusReturnsNothing ==
  [][ (SearchStep /\ EmptyCorpus) =>
        /\ ret'.hits = {}
        /\ ret'.shown = <<>>
        /\ ret'.msg \in {"enter a keyword", "no matches", "no documents"} ]_vars

\* C10 witness: the Gradio search has answered a query that is not blank
\* over a corpus whose only documents failed extraction.
C10_Witness ==
  /\ GradioSearchDone
  /\ ~IsBlankQuery(call.query)
  /\ DOMAIN DOCS # {}
  /\ \A rel \in DOMAIN DOCS : IsBlankQuery(DOCS[rel].text)
  /\ ret.msg = "no matches"

-----------------------------------------------------------------------------
(* Uploading and clearing in a session: C11 .. C15, checked under Spec.    *)

\* the step is a process-uploads call
UploadStep ==
  \/ app = "gradio" /\ call'.op = "process_upload"
  \/ app = "streamlit" /\ call'.op = "render_upload_section"

\* C11: a process-uploads call with no files returns an empty or guidance
\* result and changes nothing: the corpus, the temporary directories and
\* the rest of the session state are as they were before the call.
C11_EmptyUploadIsNoOp ==
  [][ (UploadStep /\ call'.files = <<>>) =>
        /\ ret'.processed = {}
        /\ ret'.hits = {}
        /\ ret'.shown = <<>>
        /\ DOCS' = DOCS
        /\ tmpDirs' = tmpDirs
        /\ documents' = documents
        /\ metadata' = metadata
        /\ search_results' = search_results
        /\ current_page' = current_page ]_vars

\* C12: a clear leaves the corpus empty, on an empty corpus too; the corpus
\* then stays empty through further clears and searches, and every search
\* over it returns no match, until the next process-uploads call.
C12_ClearIsIdempotent ==
  [][ app = "gradio" =>
        /\ call'.op = "clear_docs" =>
             (DOCS' = EmptyMap /\ ret'.msg = "cleared" /\ tmpDirs' = tmpDirs)
        /\ (DOCS = EmptyMap /\ call'.op # "process_upload") =>
             DOCS' = EmptyMap
        /\ (DOCS = EmptyMap /\ call'.op = "search_docs") =>
             (ret'.hits = {} /\ ret'.msg \in {"enter a keyword", "no matches"})
    ]_vars

\* C12 witness: a clear has run after two uploads (the second temporary
\* directory exists) and left the corpus empty.
C12_Witness ==
  /\ app = "gradio"
  /\ call.op = "clear_docs"
  /\ ret.msg = "cleared"
  /\ Cardinality(tmpDirs) >= 2
  /\ DOCS = EmptyMap

\* the files of a batch one after the other, an archive that opens replaced
\* by its entries
RECURSIVE FlatBatch(_)
FlatBatch(files) ==
  IF files = <<>> THEN <<>>
  ELSE LET f == Head(files)
       IN  (IF HasExt(f.name, DotZip) /\ f.exists /\ f.ok
            THEN f.entries ELSE <<f>>) \o FlatBatch(Tail(files))

\* the places of the batch that hold a readable document file with text
ReadableDocs(files) ==
  LET flat == FlatBatch(files)
  IN  {i \in 1..Len(flat) :
         /\ IsDocument(flat[i]) /\ ~Unreadable(flat[i])
         /\ ~IsBlankQuery(IF app = "gradio" THEN GradioText(flat[i])
                          ELSE StreamlitText(flat[i]))}

\* C13: a batch with N >= 1 readable document files (two of the same name
\* or the same content included) leaves N documents with text in the corpus.
C13_NoDeduplication ==
  /\ (GradioUploadDone /\ ReadableDocs(call.files) # {}) =>
       Cardinality({rel \in DOMAIN DOCS : DOCS[rel].note = ""})
         = Cardinality(ReadableDocs(call.files))
  /\ (StreamlitUploadDone /\ ReadableDocs(call.files) # {}) =>
       Len(documents) = Cardinality(ReadableDocs(call.files))

\* the archives found as entries of the archives of a batch
NestedZips(files) ==
  {e \in BatchFiles(files) \ {files[i] : i \in 1..Len(files)} :
     HasExt(e.name, DotZip)}

\* the names of the files that exist only inside a nested archive
NestedOnlyNames ==
  LET tops   == {f \in Uploadable : HasExt(f.name, DotZip) /\ f.ok}
      nested == UNION {NestedZips(<<f>>) : f \in tops}
  IN  UNION {{n.entries[j].name : j \in 1..Len(n.entries)} : n \in nested}

\* C14: no document that exists only inside a nested archive is ever in the
\* corpus, and the summary of an upload names no nested archive as failed.
C14_NestedZipNotExpanded ==
  /\ \A rel \in DOMAIN DOCS :
       \A n \in NestedOnlyNames : ~EndsWith(rel, n)
  /\ \A i \in 1..Len(metadata) :
       \A n \in NestedOnlyNames : ~EndsWith(metadata[i].filename, n)
  /\ (GradioUploadDone \/ StreamlitUploadDone) =>
       \A z \in NestedZips(call.files) :
         /\ \A i \in 1..Len(ret.errors) : ret.errors[i].name # z.name
         /\ z.name \notin ret.processed

\* C14 witness: an upload of an archive that holds a nested archive has put
\* the archive's own document in the corpus.
C14_Witness ==
  /\ GradioUploadDone
  /\ NestedZips(call.files) # {}
  /\ \E f \in BatchFiles(call.files) :
       /\ IsDocument(f) /\ f.name \in DOMAIN DOCS
       /\ DOCS[f.name].note = ""
  /\ ret.errors = <<>>

DotTxt == <<".", "t", "x", "t">>

\* a file of a type the specification lists as supported
IsSupported(f) == IsDocument(f) \/ HasExt(f.name, DotTxt)

\* the content of a well-formed file of a supported type
ContentOf(f) ==
  IF HasExt(f.name, DotTxt) THEN Concat(f.parts)
  ELSE IF app = "gradio" THEN GradioText(f) ELSE StreamlitText(f)

\* C15: after an upload, every well-formed file of the batch of a supported
\* type (pdf, docx, txt) with content has a searchable text in the corpus,
\* and every text stored as searchable is not blank.
C15_SupportedTypesSearchable ==
  /\ GradioUploadDone =>
       \A f \in BatchFiles(call.files) :
         (IsSupported(f) /\ ~Unreadable(f) /\ ~IsBlankQuery(ContentOf(f))) =>
           \E rel \in DOMAIN DOCS :
             rel = f.name /\ DOCS[rel].note = "" /\ DOCS[rel].text = ContentOf(f)
  /\ StreamlitUploadDone =>
       \A f \in BatchFiles(call.files) :
         (IsSupported(f) /\ ~Unreadable(f) /\ ~IsBlankQuery(ContentOf(f))) =>
           \E i \in 1..Len(documents) :
             metadata[i].filename = f.name /\ documents[i] = ContentOf(f)
  /\ \A rel \in DOMAIN DOCS :
       DOCS[rel].note = "" => ~IsBlankQuery(DOCS[rel].text)
  /\ \A i \in 1..Len(documents) :
       documents[i] # <<>> /\ ~IsSpace(documents[i][1])
         /\ ~IsSpace(documents[i][Len(documents[i])])

-----------------------------------------------------------------------------
(* Highlighting: C16, checked under SpecSearch.                            *)

\* the highlight markers of the two applications
Markers == {"<mark>", "<mark style>", "</mark>"}

\* s with every highlight marker removed
Unmarked(s) ==
  LET F[i \in 0..Len(s)] ==
        IF i = 0 THEN <<>>
        ELSE IF s[i] \in Markers THEN F[i - 1] ELSE Append(F[i - 1], s[i])
  IN  F[Len(s)]

\* the number of highlighted spans of s
MarkedSpans(s) == Cardinality({i \in 1..Len(s) : s[i] = "</mark>"})

\* text as a snippet shows it: every newline a space
OnOneLine(text) ==
  [i \in 1..Len(text) |-> IF text[i] = "\n" THEN " " ELSE text[i]]

-----------------------------------------------------------------------------
(* Two browser sessions on one server: C17, checked under SpecSessions.    *)
(* The server handles one event at a time; between two events it may turn  *)
(* to the other session. DOCS is a global of the server process, shared by *)
(* every session; st.session_state is kept per session.                    *)

Other(s) == 3 - s

\* the server turns to the other session: Streamlit runs the script with
\* that session's st.session_state
switch_session ==
  /\ session' = Other(session)
  /\ IF app = "streamlit"
     THEN /\ documents' = parked.documents
          /\ metadata' = parked.metadata
          /\ search_results' = parked.search_results
          /\ current_page' = parked.current_page
          /\ parked' = [documents      |-> documents,
                        metadata       |-> metadata,
                        search_results |-> search_results,
                        current_page   |-> current_page]
     ELSE UNCHANGED <<documents, metadata, search_results, current_page,
                      parked>>
  /\ UNCHANGED <<app, DOCS, tmpDirs, call, ret>>

\* the files each session has on its disk: the names of the two differ
SessionUploads(s) == IF s = 1 THEN {GoodPdf, GoodZip} ELSE {GoodDocx}

\* the names under which the files of a session can enter a corpus
OwnNames(s) ==
  {f.name : f \in UNION {BatchFiles(<<u>>) : u \in SessionUploads(s)}}

\* the queries of the sessions: a word that occurs in every document
SharedQueries == {<<"a", "b", "c">>}

NextSessions ==
  \/ switch_session
  \/ \E files \in SeqUpTo(SessionUploads(session), 1) : proc_btn_click(files)
  \/ \E keyword \in SharedQueries : search_btn_click(keyword)
  \/ clear_btn_click
  \/ \E page \in Pages : render_sidebar(page)
  \/ \E files \in SeqUpTo(SessionUploads(session) \cap SingleFiles, 1) :
       upload_single_files(files)
  \/ \E zip \in SessionUploads(session) \cap ZipFiles : upload_zip_archive(zip)
  \/ \E q \in SharedQueries, k \in ResultCounts : render_search_section(q, k)

SpecSessions == Init /\ [][NextSessions]_vars

\* C17: in every step that a session's handler takes, a search returns only
\* documents that this session uploaded, and the corpus of the other session
\* stays as it was.
C17_CorpusSessionScoped ==
  [][ session' = session =>
        /\ app = "gradio" =>
             /\ call'.op = "search_docs" =>
                  \A h \in ret'.hits : h.fname \in OwnNames(session)
             /\ \A rel \in DOMAIN DOCS :
                  rel \in OwnNames(Other(session)) =>
                    (rel \in DOMAIN DOCS' /\ DOCS'[rel] = DOCS[rel])
        /\ app = "streamlit" =>
             /\ call'.op = "render_search_section" =>
                  \A j \in 1..Len(ret'.shown) :
                    ret'.shown[j].metadata.filename \in OwnNames(session)
             /\ parked'.documents = parked.documents
             /\ parked'.metadata = parked.metadata
             /\ \A i \in 1..Len(parked.metadata) :
                  parked.metadata[i].filename \in OwnNames(Other(session))
    ]_vars

-----------------------------------------------------------------------------
(* The Streamlit session state: C18, C19, checked under Spec.              *)

\* C18: st.session_state.documents and .metadata have the same length, the
\* i-th metadata entry holds the i-th document as its content, and every
\* search result pairs a document with its own metadata.
C18_DocumentsMetadataAligned ==
  app = "streamlit" =>
    /\ Len(documents) = Len(metadata)
    /\ \A i \in 1..Len(documents) : metadata[i].content = documents[i]
    /\ \A j \in 1..Len(ret.shown) :
         ret.shown[j].metadata.content = ret.shown[j].document
    /\ \A j \in 1..Len(search_results) :
         search_results[j].metadata.content = search_results[j].document

\* C18 witness: a batch of two files has been processed, the first of them
\* without text, and the second one alone makes up the corpus.
C18_Witness ==
  /\ StreamlitUploadDone
  /\ Len(call.files) = 2
  /\ call.files[1].ok /\ StreamlitText(call.files[1]) = <<>>
  /\ Len(documents) = 1
  /\ Len(metadata) = 1
  /\ metadata[1].filename = call.files[2].name
  /\ documents[1] = StreamlitText(call.files[2])

\* C19: every record held in st.session_state.search_results is a document
\* of the current corpus with its metadata.
C19_SearchResultsCurrent ==
  app = "streamlit" =>
    \A j \in 1..Len(search_results) :
      \E i \in 1..Len(documents) :
        /\ documents[i] = search_results[j].document
        /\ metadata[i] = search_results[j].metadata

====
